---------------------------- MODULE Spec2Model ----------------------------
(***************************************************************************)
(* Model of the file-search engines and of the PTY session manager of the  *)
(* trafalgar backend.                                                      *)
(*                                                                         *)
(*   Spec         the capped, batched search  (src-tauri/src/lib.rs,       *)
(*                search_files)                                            *)
(*   SpecShallow  the shallow-pass variant    (src-tauri/src/search.rs,    *)
(*                search_files)                                            *)
(*   SpecPty      the PTY session manager     (src-tauri/src/pty.rs,       *)
(*                PtyManager and the output pumps it spawns)               *)
(*   SpecConc     two concurrent capped searches (lib.rs search_files)     *)
(*                                                                         *)
(* In Spec and SpecShallow one search invocation is modelled.  The         *)
(* directory tree is an input: it is fixed by Init and given as the        *)
(* sequence of entries in the order in                                     *)
(* which WalkDir yields them (the root itself first).  A file name is a    *)
(* sequence of one-character strings, so that lowercasing and the          *)
(* substring test are computed and not assumed.                            *)
(***************************************************************************)
EXTENDS Integers, Sequences, FiniteSets, TLC

VARIABLES
    tree,           \* the WalkDir sequence of the searched tree (input)
    root_readable,  \* whether fs::read_dir(root) succeeds (input, search.rs)
    next_entry_err, \* which call of next_entry returns Err, 0 for none
                    \* (input, search.rs)
    query,          \* the query argument, as passed by the caller (input)
    search_id,      \* the search_id argument (input)
    pc,             \* position of the invocation in search_files
    pos,            \* index in tree of the next entry the iterator yields
    total_matches,  \* lib.rs:57 / search.rs:42
    sent_results,   \* lib.rs:58
    results,        \* lib.rs:60, the buffer of matches not yet sent
    events,         \* the events handed to on_event.send, in call order
    ret             \* "none" while running, "Ok" after Ok(()), "panic"

VARIABLES
    ptys,           \* pty.rs:11, the map of PtyManager: id -> PtyInstance
    lock,           \* the thread holding the Mutex of pty.rs:11, 0 if free
    thr,            \* per calling thread: the PtyManager call it is in
    pump,           \* per session id: the task spawned at pty.rs:83
    issued,         \* the ids Uuid::new_v4 has produced so far (pty.rs:61)
    destroyed_at,   \* id -> number of chunks the pump of id had read when
                    \* destroy_pty(id) first returned
    emitted,        \* per session id: the events window.emit delivered
                    \* on the channels of the id, in order
    calls           \* number of PtyManager calls started so far

VARIABLES
    conc,           \* per concurrent search invocation: its arguments and
                    \* the locals of search_files (lib.rs:44-60)
    wire            \* the events of all invocations, in send order

\* the state of the PTY manager
ptyVars == <<ptys, lock, thr, pump, issued, destroyed_at, emitted, calls>>

\* the state of the concurrent searches
concVars == <<conc, wire>>

\* what a single search invocation never changes: its arguments, the file
\* system, and the state of the other components
inputs == <<tree, root_readable, next_entry_err, query, search_id,
            ptyVars, concVars>>

\* the state of the single search invocation
searchVars == <<tree, root_readable, next_entry_err, query, search_id,
                pc, pos, total_matches, sent_results, results, events, ret>>

vars == <<inputs, pc, pos, total_matches, sent_results, results, events, ret>>

---------------------------------------------------------------------------
(* Program constants.                                                      *)

MAX_RESULTS_PER_BATCH == 20

MAX_TOTAL_RESULTS == 100

(* Bounds of the model.                                                    *)

\* largest number of entries below the root, capped search
MaxEntries == 150

\* largest number of entries below the root, shallow-pass variant
MaxShallowEntries == 56

\* number of session ids Uuid::new_v4 can produce
MaxIds == 2

\* largest number of PtyManager calls in a behaviour
MaxCalls == 3

\* largest number of chunks a session's PTY produces
MaxChunks == 2

\* number of entries below the root, first of two concurrent searches
MaxConcEntries == 120

\* number of entries below the root, second of two concurrent searches
MaxConcSmall == 25

---------------------------------------------------------------------------
(* The components at rest.                                                 *)

Threads == {1, 2}

NoThread == 0

Ids == 1..MaxIds

NoId == 0

\* an id a caller passes that Uuid::new_v4 never produces
BogusId == MaxIds + 1

\* a thread that is in no PtyManager call and has made none
IdleThread == [op |-> "none", pc |-> "idle", id |-> NoId, res |-> "none"]

\* no task has been spawned for the id
NoPump == [st |-> "none", nread |-> 0, last |-> "none", spawns |-> 0]

\* PtyManager::new (pty.rs:20-24): an empty map behind a free Mutex
InitPty ==
    /\ ptys = <<>>
    /\ lock = NoThread
    /\ thr = [t \in Threads |-> IdleThread]
    /\ pump = [i \in Ids |-> NoPump]
    /\ issued = {}
    /\ destroyed_at = <<>>
    /\ emitted = [i \in Ids |-> <<>>]
    /\ calls = 0

\* no concurrent search has been invoked
InitNoConc ==
    /\ conc = <<>>
    /\ wire = <<>>

\* no single search has been invoked
InitNoSearch ==
    /\ tree = <<>>
    /\ root_readable = TRUE
    /\ next_entry_err = 0
    /\ query = <<>>
    /\ search_id = 0
    /\ pc = "none"
    /\ pos = 1
    /\ total_matches = 0
    /\ sent_results = 0
    /\ results = <<>>
    /\ events = <<>>
    /\ ret = "none"

---------------------------------------------------------------------------
(* Strings.                                                                *)

Min(a, b) == IF a < b THEN a ELSE b

\* char::to_lowercase on the letters the model's names and queries use
to_lowercase_char(c) ==
    CASE c = "A" -> "a"
      [] c = "D" -> "d"
      [] c = "E" -> "e"
      [] c = "R" -> "r"
      [] OTHER   -> c

\* str::to_lowercase
to_lowercase(s) == [i \in 1..Len(s) |-> to_lowercase_char(s[i])]

\* str::contains(needle): needle occurs as a contiguous substring
contains(hay, needle) ==
    \E i \in 0..(Len(hay) - Len(needle)) :
        SubSeq(hay, i + 1, i + Len(needle)) = needle

\* the test of lib.rs:69 and search.rs:49,75; the query is lowercased once,
\* at lib.rs:59 / search.rs:43
NameMatches(name, q) == contains(to_lowercase(name), to_lowercase(q))

---------------------------------------------------------------------------
(* The searched trees.                                                     *)

N_proj     == <<"p","r","o","j">>
N_src      == <<"s","r","c">>
N_readme   == <<"r","e","a","d","m","e",".","t","x","t">>
N_Reader   == <<"R","e","a","d","e","r",".","g","o">>
N_rtest    == <<"r","e","a","d","e","r","_","t","e","s","t",".","r","s">>
N_main     == <<"m","a","i","n",".","r","s">>

Q_read     == <<"r","e","a","d">>
Q_READ     == <<"R","E","A","D">>

\* An entry of the walk.  path is the entry's identity; depth is its depth
\* below the root (0 = the root, 1 = an immediate child); walk_ok tells
\* whether WalkDir yields Ok for it, meta_ok whether DirEntry::metadata of
\* walkdir succeeds, lmeta_ok whether tokio's DirEntry::metadata succeeds.
MkEntry(p, n, d, w, m, l) ==
    [path |-> p, name |-> n, depth |-> d,
     walk_ok |-> w, meta_ok |-> m, lmeta_ok |-> l]

Fillers == {"nomatch", "walkerr", "metaerr", "mixed"}

\* nomatch: a readable entry whose name does not contain "read";
\* walkerr: an entry named readme.txt for which the walker yields an error
\*          (a broken symbolic link under follow_links);
\* metaerr: an entry named Reader.go whose metadata cannot be read;
\* mixed:   the three above in turn.
RECURSIVE FillerEntry(_, _, _)
FillerEntry(p, d, kind) ==
    CASE kind = "nomatch" -> MkEntry(p, N_main,   d, TRUE,  TRUE,  TRUE)
      [] kind = "walkerr" -> MkEntry(p, N_readme, d, FALSE, TRUE,  TRUE)
      [] kind = "metaerr" -> MkEntry(p, N_Reader, d, TRUE,  FALSE, FALSE)
      [] kind = "mixed"   ->
            FillerEntry(p, d, CASE p % 3 = 0 -> "nomatch"
                                [] p % 3 = 1 -> "walkerr"
                                [] OTHER     -> "metaerr")

\* A root followed by n entries, the first k of them immediate children of
\* the root and the others one level deeper.  Every entry's name contains
\* "read" in some letter case, except that, when period > 0, every
\* period-th entry is a filler of the given kind.
FamilyTree(n, k, kind, period) ==
    [i \in 1..(n + 1) |->
        IF i = 1 THEN MkEntry(1, N_proj, 0, TRUE, TRUE, TRUE)
        ELSE LET j == i - 1
                 d == IF j <= k THEN 1 ELSE 2
             IN IF period > 0 /\ j % period = 0
                THEN FillerEntry(i, d, kind)
                ELSE MkEntry(i, IF j % 2 = 1 THEN N_readme ELSE N_Reader,
                             d, TRUE, TRUE, TRUE)]

\* /tmp/proj with readme.txt, Reader.go and src/reader_test.rs
ScenarioTree ==
    << MkEntry(1, N_proj,   0, TRUE, TRUE, TRUE),
       MkEntry(2, N_readme, 1, TRUE, TRUE, TRUE),
       MkEntry(3, N_Reader, 1, TRUE, TRUE, TRUE),
       MkEntry(4, N_src,    1, TRUE, TRUE, TRUE),
       MkEntry(5, N_rtest,  2, TRUE, TRUE, TRUE) >>

Periods == {2, 7}

LibTrees ==
    {ScenarioTree}
    \cup {FamilyTree(n, n, "nomatch", 0) : n \in 0..MaxEntries}
    \cup {FamilyTree(n, n, kind, p) :
              n \in 1..MaxEntries, kind \in Fillers, p \in Periods}

Queries == {Q_read, Q_READ}

SearchIds == {7}

---------------------------------------------------------------------------
(* Events (the SearchEvent enum, lib.rs:17-35).                            *)

StartedEvent(q, sid) == [event |-> "Started", query |-> q, search_id |-> sid]

ResultEvent_FixedId(sid, e) ==
    [event |-> "Result", search_id |-> 7, path |-> e.path, name |-> e.name]

\* path stands for the cleaned canonical path of the entry, name for the
\* file name taken from the stored path
ResultEvent(sid, e) ==
    [event |-> "Result", search_id |-> sid, path |-> e.path, name |-> e.name]

FinishedEvent(sid, total, sent) ==
    [event |-> "Finished", search_id |-> sid, total_matches |-> total,
     has_more |-> total > sent]

---------------------------------------------------------------------------
(* The capped search, lib.rs search_files.                                 *)

CapReached_OffByOne(sent) == sent > MAX_TOTAL_RESULTS

\* the comparison of lib.rs:79, 110 and 119
CapReached(sent) == sent >= MAX_TOTAL_RESULTS

RECURSIVE SendLoop_Reversed(_, _, _)
SendLoop_Reversed(items, sent, sid) ==
    IF items = <<>> \/ CapReached(sent)
    THEN <<>>
    ELSE <<ResultEvent(sid, items[Len(items)])>>
         \o SendLoop_Reversed(SubSeq(items, 1, Len(items) - 1), sent + 1, sid)

\* The body of the two sending loops (lib.rs:78-107 and 118-147): walk the
\* items in order, stop at the first item for which the cap is reached,
\* send a Result for every other one and add one to sent_results for it.
\* The value is the sequence of events sent; sent_results grows by its
\* length.
RECURSIVE SendLoop(_, _, _)
SendLoop(items, sent, sid) ==
    IF items = <<>> \/ CapReached(sent)
    THEN <<>>
    ELSE <<ResultEvent(sid, Head(items))>>
         \o SendLoop(Tail(items), sent + 1, sid)

\* Iterator::take(n) / the range ..n of a Vec
Take(s, n) == SubSeq(s, 1, Min(n, Len(s)))

\* what drain(..n) leaves in the Vec once the Drain is dropped
DropFront(s, n) == SubSeq(s, n + 1, Len(s))

Init ==
    /\ tree \in LibTrees
    /\ root_readable = TRUE
    /\ next_entry_err = 0
    /\ query \in Queries
    /\ search_id \in SearchIds
    /\ pc = "start"
    /\ pos = 1
    /\ total_matches = 0
    /\ sent_results = 0
    /\ results = <<>>
    /\ events = <<>>
    /\ ret = "none"
    /\ InitPty
    /\ InitNoConc

\* lib.rs:52-60
SendStarted ==
    /\ pc = "start"
    /\ events' = Append(events, StartedEvent(query, search_id))
    /\ pc' = "walk"
    /\ UNCHANGED <<inputs, pos, total_matches,
                   sent_results, results, ret>>

\* lib.rs:66, the walker yields an error for the entry: filtered out
WalkSkipError ==
    /\ pc = "walk"
    /\ pos <= Len(tree)
    /\ ~tree[pos].walk_ok
    /\ pos' = pos + 1
    /\ UNCHANGED <<inputs, pc, total_matches,
                   sent_results, results, events, ret>>

\* lib.rs:68-69, the name does not contain the query
WalkNoMatch ==
    /\ pc = "walk"
    /\ pos <= Len(tree)
    /\ tree[pos].walk_ok
    /\ ~NameMatches(tree[pos].name, query)
    /\ pos' = pos + 1
    /\ UNCHANGED <<inputs, pc, total_matches,
                   sent_results, results, events, ret>>

WalkMetadataError_Counted ==
    /\ pc = "walk"
    /\ pos <= Len(tree)
    /\ tree[pos].walk_ok
    /\ NameMatches(tree[pos].name, query)
    /\ ~tree[pos].meta_ok
    /\ pos' = pos + 1
    /\ total_matches' = total_matches + 1
    /\ UNCHANGED <<inputs, pc,
                   sent_results, results, events, ret>>

\* lib.rs:70, the name matches but entry.metadata() fails
WalkMetadataError ==
    /\ pc = "walk"
    /\ pos <= Len(tree)
    /\ tree[pos].walk_ok
    /\ NameMatches(tree[pos].name, query)
    /\ ~tree[pos].meta_ok
    /\ pos' = pos + 1
    /\ UNCHANGED <<inputs, pc, total_matches,
                   sent_results, results, events, ret>>

WalkMatch_KeepsWalking ==
    /\ pc = "walk"
    /\ pos <= Len(tree)
    /\ tree[pos].walk_ok
    /\ NameMatches(tree[pos].name, query)
    /\ tree[pos].meta_ok
    /\ LET pushed == Append(results, tree[pos])
           full   == Len(pushed) >= MAX_RESULTS_PER_BATCH
           out    == IF full
                     THEN SendLoop(Take(pushed, MAX_RESULTS_PER_BATCH),
                                   sent_results, search_id)
                     ELSE <<>>
       IN /\ total_matches' = total_matches + 1
          /\ results' = IF full THEN DropFront(pushed, MAX_RESULTS_PER_BATCH)
                                ELSE pushed
          /\ events' = events \o out
          /\ sent_results' = sent_results + Len(out)
          /\ pc' = "walk"
    /\ pos' = pos + 1
    /\ UNCHANGED <<inputs, ret>>

\* lib.rs:70-113, one iteration of the walk loop on a match
WalkMatch ==
    /\ pc = "walk"
    /\ pos <= Len(tree)
    /\ tree[pos].walk_ok
    /\ NameMatches(tree[pos].name, query)
    /\ tree[pos].meta_ok
    /\ LET pushed == Append(results, tree[pos])
           full   == Len(pushed) >= MAX_RESULTS_PER_BATCH
           out    == IF full
                     THEN SendLoop(Take(pushed, MAX_RESULTS_PER_BATCH),
                                   sent_results, search_id)
                     ELSE <<>>
       IN /\ total_matches' = total_matches + 1
          /\ results' = IF full THEN DropFront(pushed, MAX_RESULTS_PER_BATCH)
                                ELSE pushed
          /\ events' = events \o out
          /\ sent_results' = sent_results + Len(out)
          /\ pc' = IF CapReached(sent_results + Len(out))
                   THEN "flush" ELSE "walk"
    /\ pos' = pos + 1
    /\ UNCHANGED <<inputs, ret>>

\* lib.rs:63-115, the iterator is exhausted
WalkEnd ==
    /\ pc = "walk"
    /\ pos > Len(tree)
    /\ pc' = "flush"
    /\ UNCHANGED <<inputs, pos, total_matches,
                   sent_results, results, events, ret>>

FlushRemaining_Forgotten ==
    /\ pc = "flush"
    /\ pc' = "finish"
    /\ UNCHANGED <<inputs, pos, total_matches,
                   sent_results, results, events, ret>>

\* lib.rs:117-147, the remaining results
FlushRemaining ==
    /\ pc = "flush"
    /\ LET out == SendLoop(Take(results, MAX_RESULTS_PER_BATCH),
                           sent_results, search_id)
       IN /\ events' = events \o out
          /\ sent_results' = sent_results + Len(out)
    /\ pc' = "finish"
    /\ UNCHANGED <<inputs, pos, total_matches,
                   results, ret>>

\* lib.rs:149-156
SendFinished ==
    /\ pc = "finish"
    /\ events' = Append(events,
                        FinishedEvent(search_id, total_matches, sent_results))
    /\ pc' = "done"
    /\ ret' = "Ok"
    /\ UNCHANGED <<inputs, pos, total_matches,
                   sent_results, results>>

Next ==
    \/ SendStarted
    \/ WalkSkipError
    \/ WalkNoMatch
    \/ WalkMetadataError
    \/ WalkMatch
    \/ WalkEnd
    \/ FlushRemaining
    \/ SendFinished

Spec == Init /\ [][Next]_vars

---------------------------------------------------------------------------
(* The shallow-pass variant, search.rs search_files.                       *)
(*                                                                         *)
(* Every on_event.send(..), fs::read_dir(..) and entry.metadata() of this  *)
(* variant is unwrapped: an Err panics the invocation.  The outcome of a   *)
(* send is chosen by the environment (the caller may have gone away).      *)
(* events holds the events whose send returned Ok.                         *)

\* the Finished variant of search.rs:22-25 has no has_more field
ShFinishedEvent(sid, total) ==
    [event |-> "Finished", search_id |-> sid, total_matches |-> total]

IsChild(e) == e.depth = 1

\* what fs::read_dir(root) lists: the immediate children of the root, here
\* in the order in which the walk meets them
Children(t) == SelectSeq(t, IsChild)

ShallowTrees ==
    {ScenarioTree}
    \cup UNION {{FamilyTree(n, k, kind, 3) :
                     k \in {n, (n + 1) \div 2}, kind \in {"nomatch", "mixed"}} :
                 n \in 0..MaxShallowEntries}
    \cup {FamilyTree(n, n, "nomatch", 0) : n \in 0..MaxShallowEntries}

NextEntryErrs == {0, 3}

InitShallow ==
    /\ tree \in ShallowTrees
    /\ root_readable \in BOOLEAN
    /\ next_entry_err \in NextEntryErrs
    /\ query \in Queries
    /\ search_id \in SearchIds
    /\ pc = "start"
    /\ pos = 1
    /\ total_matches = 0
    /\ sent_results = 0
    /\ results = <<>>
    /\ events = <<>>
    /\ ret = "none"
    /\ InitPty
    /\ InitNoConc

\* an unwrap() of an Err
Panic ==
    /\ pc' = "panicked"
    /\ ret' = "panic"

\* search.rs:35-43
ShSendStarted ==
    /\ pc = "start"
    /\ \E ok \in BOOLEAN :
          IF ok
          THEN /\ events' = Append(events, StartedEvent(query, search_id))
               /\ pc' = "readdir"
               /\ ret' = ret
          ELSE Panic /\ events' = events
    /\ UNCHANGED <<inputs, pos, total_matches, sent_results, results>>

\* search.rs:46
ShReadDir ==
    /\ pc = "readdir"
    /\ IF root_readable
       THEN pc' = "shallow" /\ ret' = ret
       ELSE Panic
    /\ pos' = 1
    /\ UNCHANGED <<inputs, total_matches, sent_results, results, events>>

\* the pos-th call of next_entry returns Ok(Some(entry))
NextEntryYields ==
    /\ pc = "shallow"
    /\ pos <= Len(Children(tree))
    /\ pos # next_entry_err

\* search.rs:47-49, an immediate child whose name does not contain the query
ShShallowNoMatch ==
    /\ NextEntryYields
    /\ ~NameMatches(Children(tree)[pos].name, query)
    /\ pos' = pos + 1
    /\ UNCHANGED <<inputs, pc, total_matches, sent_results, results, events,
                   ret>>

\* search.rs:47-65, an immediate child whose name contains the query
ShShallowMatch ==
    /\ NextEntryYields
    /\ NameMatches(Children(tree)[pos].name, query)
    /\ LET e == Children(tree)[pos]
       IN IF ~e.lmeta_ok
          THEN Panic /\ UNCHANGED <<events, total_matches, pos>>
          ELSE \E ok \in BOOLEAN :
                  IF ok
                  THEN /\ events' = Append(events, ResultEvent(search_id, e))
                       /\ total_matches' = total_matches + 1
                       /\ pos' = pos + 1
                       /\ UNCHANGED <<pc, ret>>
                  ELSE Panic /\ UNCHANGED <<events, total_matches, pos>>
    /\ UNCHANGED <<inputs, sent_results, results>>

\* search.rs:47, next_entry returns Ok(None) or Err: the loop ends
ShShallowEnd ==
    /\ pc = "shallow"
    /\ (pos > Len(Children(tree)) \/ pos = next_entry_err)
    /\ pc' = "walk"
    /\ pos' = 1
    /\ UNCHANGED <<inputs, total_matches, sent_results, results, events, ret>>

\* search.rs:72, the walker yields an error for the entry: filtered out
ShWalkSkipError ==
    /\ pc = "walk"
    /\ pos <= Len(tree)
    /\ ~tree[pos].walk_ok
    /\ pos' = pos + 1
    /\ UNCHANGED <<inputs, pc, total_matches, sent_results, results, events,
                   ret>>

\* search.rs:74-75, the name does not contain the query
ShWalkNoMatch ==
    /\ pc = "walk"
    /\ pos <= Len(tree)
    /\ tree[pos].walk_ok
    /\ ~NameMatches(tree[pos].name, query)
    /\ pos' = pos + 1
    /\ UNCHANGED <<inputs, pc, total_matches, sent_results, results, events,
                   ret>>

\* search.rs:74-91, an entry of the walk whose name contains the query
ShWalkMatch ==
    /\ pc = "walk"
    /\ pos <= Len(tree)
    /\ tree[pos].walk_ok
    /\ NameMatches(tree[pos].name, query)
    /\ IF ~tree[pos].meta_ok
       THEN Panic /\ UNCHANGED <<events, total_matches, pos>>
       ELSE \E ok \in BOOLEAN :
               IF ok
               THEN /\ events' = Append(events,
                                        ResultEvent(search_id, tree[pos]))
                    /\ total_matches' = total_matches + 1
                    /\ pos' = pos + 1
                    /\ UNCHANGED <<pc, ret>>
               ELSE Panic /\ UNCHANGED <<events, total_matches, pos>>
    /\ UNCHANGED <<inputs, sent_results, results>>

\* search.rs:69-92, the iterator is exhausted
ShWalkEnd ==
    /\ pc = "walk"
    /\ pos > Len(tree)
    /\ pc' = "finish"
    /\ UNCHANGED <<inputs, pos, total_matches, sent_results, results, events,
                   ret>>

\* search.rs:94-101
ShSendFinished ==
    /\ pc = "finish"
    /\ \E ok \in BOOLEAN :
          IF ok
          THEN /\ events' = Append(events,
                                   ShFinishedEvent(search_id, total_matches))
               /\ pc' = "done"
               /\ ret' = "Ok"
          ELSE Panic /\ events' = events
    /\ UNCHANGED <<inputs, pos, total_matches, sent_results, results>>

NextShallow ==
    \/ ShSendStarted
    \/ ShReadDir
    \/ ShShallowNoMatch
    \/ ShShallowMatch
    \/ ShShallowEnd
    \/ ShWalkSkipError
    \/ ShWalkNoMatch
    \/ ShWalkMatch
    \/ ShWalkEnd
    \/ ShSendFinished

SpecShallow == InitShallow /\ [][NextShallow]_vars

---------------------------------------------------------------------------
(* The PTY session manager, pty.rs.                                        *)
(*                                                                         *)
(* Each calling thread is in at most one PtyManager call.  write_pty,      *)
(* resize_pty and destroy_pty begin with self.ptys.lock() and are two      *)
(* steps: taking the Mutex, and the body up to the return, which drops the *)
(* guard.  create_pty is three steps: what it does before it takes the     *)
(* Mutex, taking the Mutex, and insert, spawn and return.  A thread        *)
(* waiting for the Mutex in its first statement has not started its call.  *)
(* The pump of a session takes one step per read.                          *)

Sizes == {<<24, 80>>, <<40, 120>>}

\* the rows and cols create_pty is called with
CreateSize == <<24, 80>>

\* pty.rs:71-77, the PtyInstance of a new session: the master with its size
\* (the writer and the child keep their state outside the program)
NewInstance(size) == [size |-> size]

NewIds_Reused(iss) == Ids \ DOMAIN ptys

\* pty.rs:61, Uuid::new_v4 produces an id it has not produced before
NewIds(iss) == Ids \ iss

\* the k-th chunk the PTY of session i produces; every second chunk is not
\* valid UTF-8
Chunk(i, k) == [src |-> i, seq |-> k, utf8 |-> (k % 2 = 1)]

\* pty.rs:89, String::from_utf8_lossy: invalid bytes are replaced
from_utf8_lossy(c) ==
    [src |-> c.src, seq |-> c.seq,
     text |-> IF c.utf8 THEN "text" ELSE "text with U+FFFD"]

\* pty.rs:90-93, the event "pty://output/{id}"
OutputEvent(i, c) ==
    [event |-> "pty://output", id |-> i, data |-> from_utf8_lossy(c)]

\* pty.rs:106-109, the event "pty://exit/{id}"
ExitEvent(i) == [event |-> "pty://exit", id |-> i]

\* window.emit(e) on the channels of session i, when it succeeds or fails
Emit(i, e, emit_ok) ==
    IF emit_ok THEN [emitted EXCEPT ![i] = Append(@, e)] ELSE emitted

MapPut(m, k, v) == [j \in DOMAIN m \cup {k} |-> IF j = k THEN v ELSE m[j]]

MapRemove(m, k) == [j \in DOMAIN m \ {k} |-> m[j]]

\* the thread starts a call
Enter(t, op, id, at) ==
    [op |-> op, pc |-> at, id |-> id, res |-> "none"]

\* The thread returns r from its call.  The record of a thread keeps the
\* last call that returned and its result for as long as no later call of
\* any thread has returned.
Return(t, r) ==
    [u \in Threads |->
        IF u = t THEN [thr[t] EXCEPT !.pc = "idle", !.res = r]
        ELSE IF thr[u].pc = "idle" THEN IdleThread
        ELSE thr[u]]

CanCall(t) ==
    /\ thr[t].pc = "idle"
    /\ calls < MaxCalls

\* The ids a caller can pass: those create_pty has returned (it returns
\* Ok(id) in the step that spawns the pump of id), and an id that was never
\* issued.  A caller cannot guess an id that create_pty has not returned.
CallerIds == {i \in Ids : pump[i].spawns > 0} \cup {BogusId}

\* the number of chunks the pump of the id has read
ChunksRead(id) == IF id \in Ids THEN pump[id].nread ELSE 0

InitPtyOnly ==
    /\ InitPty
    /\ InitNoSearch
    /\ InitNoConc

\* the calls of create_pty that can fail, in program order, and "none"
CreateFailures ==
    {"openpty", "spawn_command", "try_clone_reader", "take_writer", "none"}

\* whether create_pty has reached pty.rs:61 when the call fails
IdGenerated(fails) == fails \in {"try_clone_reader", "take_writer", "none"}

CreatePrepare_PumpSpawnedEarly(t) ==
    /\ CanCall(t)
    /\ NewIds(issued) # {}
    /\ calls' = calls + 1
    /\ \E fails \in CreateFailures, id \in NewIds(issued) :
          /\ issued' = IF IdGenerated(fails) THEN issued \cup {id} ELSE issued
          /\ LET entered == [thr EXCEPT ![t] = Enter(t, "create",
                                IF IdGenerated(fails) THEN id ELSE NoId, "lock")]
             IN thr' = IF fails = "none" THEN entered
                       ELSE [u \in Threads |->
                               IF u = t
                               THEN [entered[t] EXCEPT !.pc = "idle",
                                                       !.res = "Err"]
                               ELSE IF thr[u].pc = "idle" THEN IdleThread
                               ELSE thr[u]]
          /\ pump' = IF fails = "take_writer"
                     THEN [pump EXCEPT ![id] =
                              [@ EXCEPT !.st = "running", !.spawns = @ + 1]]
                     ELSE pump
    /\ UNCHANGED <<ptys, lock, destroyed_at, emitted>>
    /\ UNCHANGED <<searchVars, concVars>>

\* pty.rs:33-67: openpty, spawn_command, the new id, try_clone_reader and
\* take_writer.  Each of the four calls can fail, and `?` then returns the
\* error at once.  None of this touches the map, and the Mutex is not held.
CreatePrepare(t) ==
    /\ CanCall(t)
    /\ NewIds(issued) # {}
    /\ calls' = calls + 1
    /\ \E fails \in CreateFailures, id \in NewIds(issued) :
          /\ issued' = IF IdGenerated(fails) THEN issued \cup {id} ELSE issued
          /\ LET entered == [thr EXCEPT ![t] = Enter(t, "create",
                                IF IdGenerated(fails) THEN id ELSE NoId, "lock")]
             IN thr' = IF fails = "none" THEN entered
                       ELSE [u \in Threads |->
                               IF u = t
                               THEN [entered[t] EXCEPT !.pc = "idle",
                                                       !.res = "Err"]
                               ELSE IF thr[u].pc = "idle" THEN IdleThread
                               ELSE thr[u]]
    /\ UNCHANGED <<ptys, lock, pump, destroyed_at, emitted>>
    /\ UNCHANGED <<searchVars, concVars>>

\* pty.rs:70, self.ptys.lock()
CreateLock(t) ==
    /\ thr[t].pc = "lock"
    /\ lock = NoThread
    /\ lock' = t
    /\ thr' = [thr EXCEPT ![t] = [@ EXCEPT !.pc = "locked"]]
    /\ UNCHANGED <<ptys, pump, issued, destroyed_at, emitted, calls>>
    /\ UNCHANGED <<searchVars, concVars>>

\* pty.rs:71-115, insert, spawn of the pump, Ok(pty_id); the guard is
\* dropped at the return
CreateInsert(t) ==
    /\ thr[t].pc = "locked"
    /\ thr[t].op = "create"
    /\ ptys' = MapPut(ptys, thr[t].id, NewInstance(CreateSize))
    /\ pump' = [pump EXCEPT ![thr[t].id] =
                   [@ EXCEPT !.st = "running", !.spawns = @ + 1]]
    /\ thr' = Return(t, "Ok")
    /\ lock' = NoThread
    /\ UNCHANGED <<issued, destroyed_at, emitted, calls>>
    /\ UNCHANGED <<searchVars, concVars>>

WriteLock_Unlocked(t, id) ==
    /\ CanCall(t)
    /\ calls' = calls + 1
    /\ thr' = [thr EXCEPT ![t] = Enter(t, "write", id, "locked")]
    /\ UNCHANGED <<ptys, lock, pump, issued, destroyed_at, emitted>>
    /\ UNCHANGED <<searchVars, concVars>>

\* pty.rs:118, write_pty(id, data) takes the Mutex
WriteLock(t, id) ==
    /\ CanCall(t)
    /\ lock = NoThread
    /\ lock' = t
    /\ calls' = calls + 1
    /\ thr' = [thr EXCEPT ![t] = Enter(t, "write", id, "locked")]
    /\ UNCHANGED <<ptys, pump, issued, destroyed_at, emitted>>
    /\ UNCHANGED <<searchVars, concVars>>

WriteResult_MissIgnored(found, oc) ==
    IF found /\ oc # "ok" THEN "io error" ELSE "Ok"

\* what write_pty and resize_pty return (pty.rs:119-127, 132-144); oc is
\* the outcome of the system calls
WriteResult(found, oc) ==
    IF ~found THEN "PTY not found"
    ELSE IF oc = "ok" THEN "Ok" ELSE "io error"

\* pty.rs:119-128: get_mut, write_all, flush
WriteBody(t) ==
    /\ thr[t].pc = "locked"
    /\ thr[t].op = "write"
    /\ LET id == thr[t].id
           found == id \in DOMAIN ptys
       IN \E oc \in {"ok", "write_all fails", "flush fails"} :
             /\ (~found => oc = "ok")
             /\ thr' = Return(t, WriteResult(found, oc))
    /\ lock' = NoThread
    /\ UNCHANGED <<ptys, pump, issued, destroyed_at, emitted, calls>>
    /\ UNCHANGED <<searchVars, concVars>>

\* pty.rs:131, resize_pty(id, rows, cols) takes the Mutex
ResizeLock(t, id) ==
    /\ CanCall(t)
    /\ lock = NoThread
    /\ lock' = t
    /\ calls' = calls + 1
    /\ thr' = [thr EXCEPT ![t] = Enter(t, "resize", id, "locked")]
    /\ UNCHANGED <<ptys, pump, issued, destroyed_at, emitted>>
    /\ UNCHANGED <<searchVars, concVars>>

\* pty.rs:132-145: get, resize
ResizeBody(t) ==
    /\ thr[t].pc = "locked"
    /\ thr[t].op = "resize"
    /\ LET id == thr[t].id
           found == id \in DOMAIN ptys
       IN \E oc \in {"ok", "resize fails"}, size \in Sizes :
             /\ (~found => oc = "ok" /\ size = CreateSize)
             /\ ptys' = IF found /\ oc = "ok"
                        THEN [ptys EXCEPT ![id].size = size]
                        ELSE ptys
             /\ thr' = Return(t, WriteResult(found, oc))
    /\ lock' = NoThread
    /\ UNCHANGED <<pump, issued, destroyed_at, emitted, calls>>
    /\ UNCHANGED <<searchVars, concVars>>

\* pty.rs:148, destroy_pty(id) takes the Mutex
DestroyLock(t, id) ==
    /\ CanCall(t)
    /\ lock = NoThread
    /\ lock' = t
    /\ calls' = calls + 1
    /\ thr' = [thr EXCEPT ![t] = Enter(t, "destroy", id, "locked")]
    /\ UNCHANGED <<ptys, pump, issued, destroyed_at, emitted>>
    /\ UNCHANGED <<searchVars, concVars>>

DestroyBody_StopsPump(t) ==
    /\ thr[t].pc = "locked"
    /\ thr[t].op = "destroy"
    /\ ptys' = MapRemove(ptys, thr[t].id)
    /\ pump' = [i \in Ids |->
                   IF i = thr[t].id /\ pump[i].st = "running"
                   THEN [pump[i] EXCEPT !.st = "done"] ELSE pump[i]]
    /\ destroyed_at' =
          IF thr[t].id \in DOMAIN destroyed_at THEN destroyed_at
          ELSE MapPut(destroyed_at, thr[t].id, ChunksRead(thr[t].id))
    /\ thr' = Return(t, "unit")
    /\ lock' = NoThread
    /\ UNCHANGED <<issued, emitted, calls>>
    /\ UNCHANGED <<searchVars, concVars>>

\* pty.rs:149-150: remove, and the return of ()
DestroyBody(t) ==
    /\ thr[t].pc = "locked"
    /\ thr[t].op = "destroy"
    /\ ptys' = MapRemove(ptys, thr[t].id)
    /\ destroyed_at' =
          IF thr[t].id \in DOMAIN destroyed_at THEN destroyed_at
          ELSE MapPut(destroyed_at, thr[t].id, ChunksRead(thr[t].id))
    /\ thr' = Return(t, "unit")
    /\ lock' = NoThread
    /\ UNCHANGED <<pump, issued, emitted, calls>>
    /\ UNCHANGED <<searchVars, concVars>>

PumpAfterRead_RetriesRead(oc, emit_ok) ==
    IF (oc = "chunk" /\ emit_ok) \/ oc = "read fails" THEN "running"
    ELSE "exiting"

\* pty.rs:86-102, whether the loop goes on after a read: it breaks on EOF,
\* on a read error and on a failed emit
PumpAfterRead(oc, emit_ok) ==
    IF oc = "chunk" /\ emit_ok THEN "running" ELSE "exiting"

\* pty.rs:85-102, one iteration of the loop of the pump of session i
PumpRead(i) ==
    /\ pump[i].st = "running"
    /\ \E oc \in {"chunk", "eof", "read fails"}, emit_ok \in BOOLEAN :
          /\ (oc = "chunk" => pump[i].nread < MaxChunks)
          /\ (oc # "chunk" => emit_ok)
          /\ pump' = [pump EXCEPT ![i] =
                [@ EXCEPT !.st = PumpAfterRead(oc, emit_ok),
                          !.nread = IF oc = "chunk" THEN @ + 1 ELSE @,
                          !.last = IF oc = "chunk" /\ ~emit_ok
                                   THEN "emit fails" ELSE oc]]
          /\ emitted' = IF oc = "chunk"
                        THEN Emit(i, OutputEvent(i, Chunk(i, pump[i].nread + 1)),
                                  emit_ok)
                        ELSE emitted
    /\ UNCHANGED <<ptys, lock, thr, issued, destroyed_at, calls>>
    /\ UNCHANGED <<searchVars, concVars>>

PumpExit_RemovesSession(i) ==
    /\ pump[i].st = "exiting"
    /\ \E emit_ok \in BOOLEAN : emitted' = Emit(i, ExitEvent(i), emit_ok)
    /\ pump' = [pump EXCEPT ![i] = [@ EXCEPT !.st = "done"]]
    /\ ptys' = MapRemove(ptys, i)
    /\ UNCHANGED <<lock, thr, issued, destroyed_at, calls>>
    /\ UNCHANGED <<searchVars, concVars>>

\* pty.rs:105-112, the exit event after the loop, and the end of the task
PumpExit(i) ==
    /\ pump[i].st = "exiting"
    /\ \E emit_ok \in BOOLEAN : emitted' = Emit(i, ExitEvent(i), emit_ok)
    /\ pump' = [pump EXCEPT ![i] = [@ EXCEPT !.st = "done"]]
    /\ UNCHANGED <<ptys, lock, thr, issued, destroyed_at, calls>>
    /\ UNCHANGED <<searchVars, concVars>>

NextPty ==
    \/ \E t \in Threads : CreatePrepare(t)
    \/ \E t \in Threads : CreateLock(t)
    \/ \E t \in Threads : CreateInsert(t)
    \/ \E t \in Threads, id \in CallerIds : WriteLock(t, id)
    \/ \E t \in Threads : WriteBody(t)
    \/ \E t \in Threads, id \in CallerIds : ResizeLock(t, id)
    \/ \E t \in Threads : ResizeBody(t)
    \/ \E t \in Threads, id \in CallerIds : DestroyLock(t, id)
    \/ \E t \in Threads : DestroyBody(t)
    \/ \E i \in Ids : PumpRead(i)
    \/ \E i \in Ids : PumpExit(i)

SpecPty == InitPtyOnly /\ [][NextPty]_vars

---------------------------------------------------------------------------
(* Two invocations of search_files (lib.rs) running at the same time.      *)
(*                                                                         *)
(* search_files is an async command without an await: the runtime runs     *)
(* two invocations on two worker threads.  Each has its own arguments and  *)
(* its own locals (lib.rs:44-60, the record conc[k]); the events of both   *)
(* reach the one front end, in the order of the calls of on_event.send     *)
(* (wire).  One step of an invocation is what one action of Spec is.       *)

Invocations == {1, 2}

\* the tree with every path moved by off, so that the entries of two trees
\* differ
Rebase(t, off) == [i \in DOMAIN t |-> [t[i] EXCEPT !.path = @ + off]]

\* the trees of the first invocation: more than 100 matching entries
ConcTreesLarge == {FamilyTree(MaxConcEntries, MaxConcEntries, "mixed", 7)}

\* the trees of the second invocation
ConcTreesSmall ==
    {Rebase(ScenarioTree, 1000),
     Rebase(FamilyTree(MaxConcSmall, MaxConcSmall, "mixed", 7), 1000)}

\* lib.rs:44-60, an invocation that has sent nothing yet
NewInvocation(t, q, sid) ==
    [tree |-> t, query |-> q, search_id |-> sid, pc |-> "start", pos |-> 1,
     total_matches |-> 0, sent_results |-> 0, results |-> <<>>]

InitConc ==
    /\ InitPty
    /\ InitNoSearch
    /\ \E t1 \in ConcTreesLarge, t2 \in ConcTreesSmall, q1 \in Queries :
          conc = [k \in Invocations |->
                    IF k = 1 THEN NewInvocation(t1, q1, 7)
                    ELSE NewInvocation(t2, Q_READ, 8)]
    /\ wire = <<>>

\* lib.rs:52-60
ConcSendStarted(k) ==
    /\ conc[k].pc = "start"
    /\ wire' = Append(wire, StartedEvent(conc[k].query, conc[k].search_id))
    /\ conc' = [conc EXCEPT ![k].pc = "walk"]
    /\ UNCHANGED <<searchVars, ptyVars>>

\* lib.rs:66-70, an entry that is passed over: the walker yields an error
\* for it, or its name does not contain the query, or its metadata cannot
\* be read
ConcWalkPass(k) ==
    /\ conc[k].pc = "walk"
    /\ conc[k].pos <= Len(conc[k].tree)
    /\ LET e == conc[k].tree[conc[k].pos]
       IN ~(e.walk_ok /\ NameMatches(e.name, conc[k].query) /\ e.meta_ok)
    /\ conc' = [conc EXCEPT ![k].pos = @ + 1]
    /\ UNCHANGED wire
    /\ UNCHANGED <<searchVars, ptyVars>>

\* lib.rs:70-113, one iteration of the walk loop on a match
ConcWalkMatch(k) ==
    /\ conc[k].pc = "walk"
    /\ conc[k].pos <= Len(conc[k].tree)
    /\ LET c      == conc[k]
           e      == c.tree[c.pos]
           pushed == Append(c.results, e)
           full   == Len(pushed) >= MAX_RESULTS_PER_BATCH
           out    == IF full
                     THEN SendLoop(Take(pushed, MAX_RESULTS_PER_BATCH),
                                   c.sent_results, c.search_id)
                     ELSE <<>>
       IN /\ e.walk_ok /\ NameMatches(e.name, c.query) /\ e.meta_ok
          /\ wire' = wire \o out
          /\ conc' = [conc EXCEPT ![k] =
                [c EXCEPT
                    !.total_matches = @ + 1,
                    !.results = IF full
                                THEN DropFront(pushed, MAX_RESULTS_PER_BATCH)
                                ELSE pushed,
                    !.sent_results = @ + Len(out),
                    !.pc = IF CapReached(c.sent_results + Len(out))
                           THEN "flush" ELSE "walk",
                    !.pos = @ + 1]]
    /\ UNCHANGED <<searchVars, ptyVars>>

\* lib.rs:63-115, the iterator is exhausted
ConcWalkEnd(k) ==
    /\ conc[k].pc = "walk"
    /\ conc[k].pos > Len(conc[k].tree)
    /\ conc' = [conc EXCEPT ![k].pc = "flush"]
    /\ UNCHANGED wire
    /\ UNCHANGED <<searchVars, ptyVars>>

\* lib.rs:117-147, the remaining results
ConcFlushRemaining(k) ==
    /\ conc[k].pc = "flush"
    /\ LET c   == conc[k]
           out == SendLoop(Take(c.results, MAX_RESULTS_PER_BATCH),
                           c.sent_results, c.search_id)
       IN /\ wire' = wire \o out
          /\ conc' = [conc EXCEPT ![k] =
                [c EXCEPT !.sent_results = @ + Len(out), !.pc = "finish"]]
    /\ UNCHANGED <<searchVars, ptyVars>>

\* lib.rs:149-156
ConcSendFinished(k) ==
    /\ conc[k].pc = "finish"
    /\ wire' = Append(wire, FinishedEvent(conc[k].search_id,
                                          conc[k].total_matches,
                                          conc[k].sent_results))
    /\ conc' = [conc EXCEPT ![k].pc = "done"]
    /\ UNCHANGED <<searchVars, ptyVars>>

NextConc ==
    \/ \E k \in Invocations : ConcSendStarted(k)
    \/ \E k \in Invocations : ConcWalkPass(k)
    \/ \E k \in Invocations : ConcWalkMatch(k)
    \/ \E k \in Invocations : ConcWalkEnd(k)
    \/ \E k \in Invocations : ConcFlushRemaining(k)
    \/ \E k \in Invocations : ConcSendFinished(k)

SpecConc == InitConc /\ [][NextConc]_vars

---------------------------------------------------------------------------
(* Vocabulary of the properties.                                           *)

IsStarted(e)  == e.event = "Started"
IsResult(e)   == e.event = "Result"
IsFinished(e) == e.event = "Finished"

ResultsOf(evs)  == SelectSeq(evs, IsResult)
FinishedOf(evs) == SelectSeq(evs, IsFinished)

PathsOf(s) == [i \in 1..Len(s) |-> s[i].path]

\* an entry the traversal cannot read: the walker yields an error for it or
\* its metadata cannot be read
Unreadable(e) == ~e.walk_ok \/ ~e.meta_ok

\* a matching entry of the tree: it can be read and its lowercased name
\* contains the lowercased query
IsTrueMatch(e) ==
    /\ ~Unreadable(e)
    /\ \E i \in 0..(Len(e.name) - Len(query)) :
          \A k \in 1..Len(query) :
              to_lowercase_char(e.name[i + k]) = to_lowercase_char(query[k])

\* the matching entries of the whole tree, in traversal order
TrueMatches == SelectSeq(tree, IsTrueMatch)

\* the Finished event of a completed invocation
TheFinished == events[Len(events)]

---------------------------------------------------------------------------
(* Properties of the capped search (Spec).                                 *)

\* C1: when the tree holds more than 100 matching entries, a completed
\* search has sent exactly 100 Result events and its Finished event carries
\* hasMore = true; with 150 matching entries totalMatches is 150.
C1_OverCapReportsMore ==
    (pc = "done" /\ Len(TrueMatches) > 100) =>
        /\ Len(ResultsOf(events)) = 100
        /\ TheFinished.has_more = TRUE
        /\ (Len(TrueMatches) = 150 => TheFinished.total_matches = 150)

\* C2: the totalMatches reported in Finished is the number of matching
\* entries of the whole tree, whatever the cap.
C2_TotalCountsWholeTree ==
    pc = "done" => TheFinished.total_matches = Len(TrueMatches)

\* C4: when the tree holds at most 100 matching entries, a completed search
\* has delivered every match as a Result, the number of Results equals the
\* totalMatches of Finished and hasMore is false; the /tmp/proj scenario
\* gives its three matches.
C4_UnderCapDeliversAll ==
    (pc = "done" /\ Len(TrueMatches) <= 100) =>
        /\ PathsOf(ResultsOf(events)) = PathsOf(TrueMatches)
        /\ Len(ResultsOf(events)) = TheFinished.total_matches
        /\ TheFinished.has_more = FALSE
        /\ (tree = ScenarioTree =>
               /\ TheFinished.total_matches = 3
               /\ [i \in 1..3 |-> ResultsOf(events)[i].name]
                      = <<N_readme, N_Reader, N_rtest>>)

\* a completed search of the /tmp/proj scenario
C4_Witness ==
    /\ pc = "done"
    /\ tree = ScenarioTree
    /\ Len(ResultsOf(events)) = 3

\* C5: sent_results never exceeds 100, it counts the Result events sent,
\* and no step (an in-loop drain or the final flush) sends more than 20
\* Result events.
C5_CapsRespected ==
    [][ /\ sent_results <= 100
        /\ sent_results' <= 100
        /\ sent_results' = Len(ResultsOf(events'))
        /\ Len(ResultsOf(events')) - Len(ResultsOf(events)) <= 20 ]_vars

\* the fifth in-loop drain has brought the count to the cap
C5_Witness ==
    /\ sent_results = 100
    /\ Len(ResultsOf(events)) = 100
    /\ pc = "flush"

\* C7: the Result events sent are, at every moment, a prefix of the
\* matches in traversal order, and once the search has completed they are
\* exactly the first min(n, 100) of them.
C7_TraversalOrder ==
    LET rp == PathsOf(ResultsOf(events))
        tm == PathsOf(TrueMatches)
    IN /\ Len(rp) <= Len(tm)
       /\ rp = SubSeq(tm, 1, Len(rp))
       /\ (pc = "done" => Len(rp) = Min(Len(tm), 100))

\* a completed search over more matches than the cap, with fillers between
C7_Witness ==
    /\ pc = "done"
    /\ Len(TrueMatches) > 100
    /\ Len(TrueMatches) < Len(tree) - 1
    /\ Len(ResultsOf(events)) = 100

\* C8: a step of the walk on an unreadable entry sends nothing, leaves
\* totalMatches alone and goes on with the next entry; the invocation never
\* panics, it can always take a step until it has returned, and it returns
\* Ok after sending Finished.
C8_UnreadableSkipped ==
    /\ [](ret # "panic" /\ (pc # "done" => ENABLED Next))
    /\ [][ /\ (pc = "walk" /\ pos <= Len(tree) /\ Unreadable(tree[pos])) =>
               /\ events' = events
               /\ total_matches' = total_matches
               /\ sent_results' = sent_results
               /\ pc' = "walk"
               /\ pos' = pos + 1
           /\ (pc' = "done" =>
                  /\ ret' = "Ok"
                  /\ IsFinished(events'[Len(events')])
                  /\ Len(FinishedOf(events')) = 1) ]_vars

\* a search has returned after skipping an entry the walker failed on and
\* an entry whose metadata could not be read
C8_Witness ==
    /\ pc = "done"
    /\ ret = "Ok"
    /\ \E i \in 1..Len(tree) : i < pos /\ ~tree[i].walk_ok
    /\ \E i \in 1..Len(tree) : i < pos /\ tree[i].walk_ok /\ ~tree[i].meta_ok
    /\ Len(ResultsOf(events)) > 0

---------------------------------------------------------------------------
(* Properties of the shallow-pass variant (SpecShallow).                   *)

\* C3: no entry is reported twice: the Result events of an invocation carry
\* pairwise different paths, and totalMatches counts no entry more than
\* once.
C3_NoDoubleReport ==
    LET R == ResultsOf(events)
    IN /\ \A i, j \in 1..Len(R) : i < j => R[i].path # R[j].path
       /\ total_matches <= Cardinality({i \in 1..Len(tree) :
                                           NameMatches(tree[i].name, query)})

\* C6: the event stream of an invocation is Started, then Results, then
\* Finished: the first event is Started and no later one is, nothing
\* follows a Finished event, and an invocation that has ended has sent
\* Finished exactly once.
C6_StreamShape ==
    /\ (events # <<>> => IsStarted(events[1]))
    /\ \A i \in 2..Len(events) : ~IsStarted(events[i])
    /\ \A i \in 1..Len(events) : IsFinished(events[i]) => i = Len(events)
    /\ (ret # "none" => Len(FinishedOf(events)) = 1)

\* C9: no failure is fatal: the invocation never panics, and when it has
\* ended it has returned Ok after sending Finished exactly once.
C9_NoFatalPath ==
    /\ ret # "panic"
    /\ pc # "panicked"
    /\ (pc = "done" => ret = "Ok" /\ Len(FinishedOf(events)) = 1)

\* C10: at most 100 Result events are delivered, and the totalMatches of a
\* completed invocation is at least the number of matching entries.
C10_ShallowCapped ==
    /\ Len(ResultsOf(events)) <= 100
    /\ (pc = "done" => TheFinished.total_matches >= Len(TrueMatches))

---------------------------------------------------------------------------
(* Vocabulary of the properties of the PTY manager.                        *)

IsOutput(e) == e.event = "pty://output"
IsExit(e)   == e.event = "pty://exit"

\* thread t returns in this step from a call of one of the operations ops
\* that it made with the Mutex held
ReturnsFrom(t, ops) ==
    /\ thr[t].pc = "locked"
    /\ thr[t].op \in ops
    /\ thr'[t].pc = "idle"

\* thread t has returned r from a call of op on id, and no call has
\* returned since
HasReturned(t, op, id, r) ==
    /\ thr[t].pc = "idle"
    /\ thr[t].op = op
    /\ thr[t].id = id
    /\ thr[t].res = r

---------------------------------------------------------------------------
(* Properties of the PTY manager, checked under SpecPty.                   *)

\* C11: once destroy_pty(id) has returned, id is never again in the
\* registry map, whatever calls follow, and every write_pty and resize_pty
\* on id that returns afterwards returns the not-found error.
C11_DestroyedStaysGone ==
    /\ [](\A id \in DOMAIN destroyed_at : id \notin DOMAIN ptys)
    /\ [][\A t \in Threads :
            (ReturnsFrom(t, {"write", "resize"})
                /\ thr[t].id \in DOMAIN destroyed_at)
            => thr'[t].res = "PTY not found"]_vars

\* a session was created and destroyed, and a write_pty on its id has
\* returned since
C11_Witness ==
    \E t \in Threads, id \in Ids :
        /\ id \in DOMAIN destroyed_at
        /\ pump[id].spawns = 1
        /\ HasReturned(t, "write", id, "PTY not found")

\* C12: on an id create_pty never issued, write_pty and resize_pty return
\* the not-found error and destroy_pty returns (); none of the three
\* changes the map, a session, a pump or an event.  A destroy_pty on an id
\* that was destroyed before changes nothing either.
C12_UnknownIdChangesNothing ==
    [][\A t \in Threads :
          /\ (ReturnsFrom(t, {"write", "resize"}) /\ thr[t].id \notin issued)
             => /\ thr'[t].res = "PTY not found"
                /\ ptys' = ptys /\ pump' = pump /\ emitted' = emitted
          /\ (ReturnsFrom(t, {"destroy"})
                /\ (thr[t].id \notin issued
                      \/ thr[t].id \in DOMAIN destroyed_at))
             => /\ thr'[t].res = "unit"
                /\ ptys' = ptys /\ pump' = pump /\ emitted' = emitted]_vars

\* a write_pty on a never-issued id has returned the not-found error while
\* a session is registered
C12_Witness ==
    \E t \in Threads :
        /\ BogusId \notin issued
        /\ DOMAIN ptys # {}
        /\ HasReturned(t, "write", BogusId, "PTY not found")

\* the Output events among evs, in order
OutputsIn(evs) == SelectSeq(evs, IsOutput)

\* the Exit events among evs, in order
ExitsIn(evs) == SelectSeq(evs, IsExit)

\* the pump of session i has seen EOF or a read error
ReadEnded(i) == pump[i].last \in {"eof", "read fails"}

\* C13: a create_pty that returns Ok starts one pump for its new id, no id
\* ever has more than one, and a pump that has ended stays ended.  The
\* Output events of an id carry chunks of that id's PTY, converted, in the
\* order read; at most one Exit is emitted, after every Output of the id;
\* after EOF or a read error the pump reads no more and emits no Output.
C13_OnePumpPerSession ==
    /\ [](\A i \in Ids :
            LET O == OutputsIn(emitted[i])
            IN /\ pump[i].spawns <= 1
               /\ (i \in DOMAIN ptys => pump[i].spawns = 1)
               /\ \A k \in 1..Len(emitted[i]) : emitted[i][k].id = i
               /\ \A k \in 1..Len(O) :
                     /\ O[k].data.src = i
                     /\ O[k].data.seq \in 1..pump[i].nread
                     /\ O[k].data.text =
                          (IF O[k].data.seq % 2 = 1 THEN "text"
                           ELSE "text with U+FFFD")
               /\ \A j, k \in 1..Len(O) :
                     j < k => O[j].data.seq < O[k].data.seq
               /\ Len(ExitsIn(emitted[i])) <= 1
               /\ \A k \in 1..Len(emitted[i]) :
                     IsExit(emitted[i][k]) => k = Len(emitted[i]))
    /\ [][\A i \in Ids :
            /\ (\E t \in Threads :
                    /\ ReturnsFrom(t, {"create"})
                    /\ thr[t].id = i
                    /\ thr'[t].res = "Ok")
               => pump[i].spawns = 0 /\ pump'[i].spawns = 1
                     /\ pump'[i].st = "running"
            /\ ReadEnded(i)
               => /\ pump'[i].nread = pump[i].nread
                  /\ OutputsIn(emitted'[i]) = OutputsIn(emitted[i])
            /\ pump[i].st = "done"
               => pump'[i] = pump[i] /\ emitted'[i] = emitted[i]]_vars

\* a pump has relayed two chunks, then seen EOF or a read error, emitted
\* Exit and ended
C13_Witness ==
    \E i \in Ids :
        /\ pump[i].st = "done"
        /\ ReadEnded(i)
        /\ Len(OutputsIn(emitted[i])) = 2
        /\ Len(ExitsIn(emitted[i])) = 1

\* thread t makes a call of create_pty that fails, in this step
CreateFails(t) ==
    /\ thr[t].pc = "idle"
    /\ calls' = calls + 1
    /\ thr'[t].pc = "idle"
    /\ thr'[t].op = "create"
    /\ thr'[t].res = "Err"

\* C14: a create_pty that fails returns the error in the step that fails,
\* and that step changes neither the map nor a pump nor an event.  While
\* the failed call is the last that returned, the id it generated (if it
\* got that far) is not in the map, has no pump and has no event; and the
\* map entry, the pump and the events of an id only ever begin in the step
\* in which a create_pty with that id returns Ok.
C14_FailedCreateLeavesNothing ==
    /\ [](\A t \in Threads, i \in Ids :
            HasReturned(t, "create", i, "Err")
            => /\ i \notin DOMAIN ptys
               /\ pump[i] = NoPump
               /\ emitted[i] = <<>>)
    /\ [][/\ \A t \in Threads :
                CreateFails(t)
                => ptys' = ptys /\ pump' = pump /\ emitted' = emitted
          /\ \A i \in Ids :
                (/\ i \notin DOMAIN ptys /\ pump[i] = NoPump
                 /\ emitted[i] = <<>>
                 /\ (i \in DOMAIN ptys' \/ pump'[i] # NoPump
                        \/ emitted'[i] # <<>>))
                => \E t \in Threads :
                      /\ ReturnsFrom(t, {"create"})
                      /\ thr[t].id = i
                      /\ thr'[t].res = "Ok"]_vars

\* a create_pty has failed after generating its id, while the pump of
\* another session has emitted events
C14_Witness ==
    \E t \in Threads, i, j \in Ids :
        /\ HasReturned(t, "create", i, "Err")
        /\ i \in issued
        /\ j # i
        /\ emitted[j] # <<>>

\* C15: the step in which destroy_pty(id) returns removes id from the map
\* and changes nothing else: the other sessions, every pump (the pump of id
\* included, whatever its state) and the events stay as they are.
C15_DestroyOnlyUnregisters ==
    [][\A t \in Threads :
          ReturnsFrom(t, {"destroy"})
          => /\ DOMAIN ptys' = DOMAIN ptys \ {thr[t].id}
             /\ \A j \in DOMAIN ptys' : ptys'[j] = ptys[j]
             /\ pump' = pump
             /\ emitted' = emitted
             /\ issued' = issued]_vars

\* destroy_pty(i) returned while the pump of i was running; the pump has
\* since read a chunk, emitted its Output, then emitted Exit and ended
C15_Witness ==
    \E i \in Ids :
        /\ i \in DOMAIN destroyed_at
        /\ i \notin DOMAIN ptys
        /\ pump[i].nread > destroyed_at[i]
        /\ Len(OutputsIn(emitted[i])) > destroyed_at[i]
        /\ Len(ExitsIn(emitted[i])) = 1
        /\ pump[i].st = "done"

\* C16, as stated: every operation holds the Mutex from its first step to
\* its return, so a thread that is inside a call is the holder.
C16_LockHeldThroughout ==
    \A t \in Threads : thr[t].pc # "idle" => lock = t

\* C16, amended: write_pty, resize_pty and destroy_pty hold the Mutex from
\* their first step to their return.  create_pty takes the same Mutex only
\* after openpty, spawn_command, the new id, try_clone_reader and
\* take_writer, and holds it for the insert, the spawn of the pump and the
\* return.  At most one thread holds the Mutex, a return releases it, and
\* the map changes only in a step of the holder.
C16_LockHeldWhileMapIsUsed ==
    /\ [](/\ lock \in Threads \cup {NoThread}
          /\ \A t \in Threads :
                /\ (lock = t <=> thr[t].pc = "locked")
                /\ (thr[t].pc # "idle"
                       /\ thr[t].op \in {"write", "resize", "destroy"}
                    => lock = t)
                /\ (thr[t].pc # "idle" /\ thr[t].op = "create"
                    => thr[t].pc \in {"lock", "locked"}))
    /\ [][/\ \A t \in Threads :
                thr[t].pc = "locked" /\ thr'[t].pc = "idle"
                => lock = t /\ lock' = NoThread
          /\ ptys' # ptys
                => /\ lock \in Threads
                   /\ thr'[lock].pc = "idle"
                   /\ \A u \in Threads \ {lock} :
                         thr'[u].pc = thr[u].pc]_vars

\* a thread is inside create_pty, past take_writer and without the Mutex,
\* while another thread holds the Mutex inside destroy_pty
C16_Witness ==
    \E t, u \in Threads :
        /\ thr[t].op = "create"
        /\ thr[t].pc = "lock"
        /\ lock = u
        /\ u # t
        /\ thr[u].op = "destroy"

\* C18: the pump of a session leaves its loop only after a zero-length
\* read or a read error; a failed emit of an Output does not end it.
C18_PumpStopsOnlyOnReadEnd ==
    \A i \in Ids : pump[i].st \in {"exiting", "done"} => ReadEnded(i)

\* C20: the set of registered ids changes only in the step in which a
\* create_pty returns Ok, which adds its new id, and in the step in which a
\* destroy_pty returns, which removes its argument.  A returning write_pty
\* or resize_pty leaves the set as it is, whatever it returns, and on a
\* registered id it does not return the not-found error, also when the
\* pump of the id has ended.  A step of a pump leaves the map as it is.
C20_RegistryChangesByCreateAndDestroy ==
    [][/\ DOMAIN ptys' # DOMAIN ptys
          => \E t \in Threads :
                \/ /\ ReturnsFrom(t, {"create"})
                   /\ thr'[t].res = "Ok"
                   /\ thr[t].id \notin DOMAIN ptys
                   /\ thr[t].id \notin DOMAIN destroyed_at
                   /\ DOMAIN ptys' = DOMAIN ptys \cup {thr[t].id}
                \/ /\ ReturnsFrom(t, {"destroy"})
                   /\ DOMAIN ptys' = DOMAIN ptys \ {thr[t].id}
       /\ \A t \in Threads :
             ReturnsFrom(t, {"write", "resize"})
             => /\ DOMAIN ptys' = DOMAIN ptys
                /\ (thr[t].id \in DOMAIN ptys
                    => thr'[t].res \in {"Ok", "io error"})
       /\ (pump' # pump /\ thr' = thr) => ptys' = ptys]_vars

\* the pump of a session has emitted Exit and ended, the session is still
\* registered, and a thread is inside write_pty on it, about to look it up
C20_Witness ==
    \E t \in Threads, i \in Ids :
        /\ pump[i].st = "done"
        /\ Len(ExitsIn(emitted[i])) = 1
        /\ i \in DOMAIN ptys
        /\ thr[t].pc = "locked"
        /\ thr[t].op = "write"
        /\ thr[t].id = i

---------------------------------------------------------------------------
(* The counters of the capped search, checked under Spec.                  *)

\* C19: between two iterations of the walk loop, and when the loop has been
\* left, total_matches is sent_results plus the number of buffered matches
\* and fewer than 20 matches are buffered; the loop is not re-entered once
\* sent_results has reached 100.  So when Finished is sent total_matches
\* equals sent_results, and the has_more it carries is false.
C19_CountersAgreeAtFinished ==
    /\ (pc \in {"walk", "flush"}
        => /\ total_matches = sent_results + Len(results)
           /\ Len(results) < MAX_RESULTS_PER_BATCH)
    /\ (pc = "walk" => sent_results < MAX_TOTAL_RESULTS)
    /\ sent_results <= MAX_TOTAL_RESULTS
    /\ (pc \in {"finish", "done"} => total_matches = sent_results)
    /\ (pc = "done"
        => /\ TheFinished.total_matches = sent_results
           /\ TheFinished.has_more = FALSE)

\* an invocation on a tree with more than 100 matching entries has ended:
\* it stopped at 100 and sent has_more = false
C19_Witness ==
    /\ pc = "done"
    /\ Len(TrueMatches) > MAX_TOTAL_RESULTS
    /\ sent_results = MAX_TOTAL_RESULTS
    /\ Len(results) = 0
    /\ TheFinished.has_more = FALSE

---------------------------------------------------------------------------
(* Two concurrent searches, checked under SpecConc.                        *)

\* the entry can be read and its lowercased name contains the lowercased q
MatchesQuery(e, q) ==
    /\ ~Unreadable(e)
    /\ \E i \in 0..(Len(e.name) - Len(q)) :
          \A j \in 1..Len(q) :
              to_lowercase_char(e.name[i + j]) = to_lowercase_char(q[j])

\* the matching entries of the tree of invocation k, in traversal order
OwnMatches(k) ==
    LET Test(e) == MatchesQuery(e, conc[k].query)
    IN SelectSeq(conc[k].tree, Test)

\* the events on the wire that carry the search_id of invocation k
OwnEvents(k) ==
    LET Test(e) == e.search_id = conc[k].search_id
    IN SelectSeq(wire, Test)

\* what invocation k sends when it runs alone: Started, a Result for each
\* of its first 100 matching entries in traversal order, and Finished
AloneEvents(k) ==
    LET M == OwnMatches(k)
        n == Min(Len(M), MAX_TOTAL_RESULTS)
    IN <<[event |-> "Started", query |-> conc[k].query,
          search_id |-> conc[k].search_id]>>
       \o [i \in 1..n |->
             [event |-> "Result", search_id |-> conc[k].search_id,
              path |-> M[i].path, name |-> M[i].name]]
       \o <<[event |-> "Finished", search_id |-> conc[k].search_id,
             total_matches |-> n, has_more |-> FALSE]>>

\* C17: under every interleaving of two searches with different ids, every
\* event on the wire carries the id of one of the two; the events carrying
\* the id of an invocation are as many as that invocation has sent and are
\* the beginning of what it sends when it runs alone (all of it once it
\* has ended); and its counters are those of its own tree and query.
C17_NoCrossContamination ==
    /\ \A i \in 1..Len(wire) :
          \E k \in Invocations : wire[i].search_id = conc[k].search_id
    /\ \A k \in Invocations :
          LET c    == conc[k]
              mine == OwnEvents(k)
              all  == AloneEvents(k)
              seen == {i \in 1..(c.pos - 1) : MatchesQuery(c.tree[i], c.query)}
          IN /\ Len(mine) = (IF c.pc = "start" THEN 0 ELSE 1)
                            + c.sent_results
                            + (IF c.pc = "done" THEN 1 ELSE 0)
             /\ mine = SubSeq(all, 1, Min(Len(mine), Len(all)))
             /\ (c.pc = "done" => Len(mine) = Len(all))
             /\ c.total_matches = Cardinality(seen)
             /\ c.sent_results <= c.total_matches

\* both invocations have ended, the first one at the cap on a tree with
\* more than 100 matching entries, and their events alternate on the wire
C17_Witness ==
    /\ \A k \in Invocations : conc[k].pc = "done"
    /\ Len(OwnMatches(1)) > MAX_TOTAL_RESULTS
    /\ conc[1].sent_results = MAX_TOTAL_RESULTS
    /\ conc[2].sent_results >= MAX_RESULTS_PER_BATCH
    /\ \E i, j, l \in 1..Len(wire) :
          /\ i < j /\ j < l
          /\ IsResult(wire[i]) /\ wire[i].search_id = conc[1].search_id
          /\ IsResult(wire[j]) /\ wire[j].search_id = conc[2].search_id
          /\ IsResult(wire[l]) /\ wire[l].search_id = conc[1].search_id

=============================================================================
